---------------------------- MODULE Spec2Model ----------------------------
(***************************************************************************)
(* Verification model of the GCN comparison tool: the identifier           *)
(* normalizer and filename validator (gcn_validator.py), the SQLite result *)
(* cache (processed_cache.py) and the cache-aware per-file pipeline with   *)
(* its thread-pool orchestrator (processor.py).                            *)
(*                                                                         *)
(* Python strings are sequences of one-character strings, so that the      *)
(* regular expressions and the normalisation are computed character by     *)
(* character, as the code computes them.                                   *)
(***************************************************************************)
EXTENDS Integers, Sequences, FiniteSets, TLC

(***************************************************************************)
(* Characters and character classes of the regular expressions.            *)
(***************************************************************************)
UpperChars ==
    <<"A","B","C","D","E","F","G","H","I","J","K","L","M",
      "N","O","P","Q","R","S","T","U","V","W","X","Y","Z">>

LowerChars ==
    <<"a","b","c","d","e","f","g","h","i","j","k","l","m",
      "n","o","p","q","r","s","t","u","v","w","x","y","z">>

DigitChars == {"0","1","2","3","4","5","6","7","8","9"}

\* the \s class, over the characters of the model
SpaceChars == {" ", "\t", "\n"}

Range(s) == {s[i] : i \in DOMAIN s}

IsUpper(c) == c \in Range(UpperChars)

IsLower(c) == c \in Range(LowerChars)

IsLetter(c) == IsUpper(c) \/ IsLower(c)

IsDigit(c) == c \in DigitChars

\* a decimal digit outside ASCII (ARABIC-INDIC DIGIT THREE), as one character
ArabicThree == "U+0663"

\* the \d class of a str pattern: every Unicode decimal digit
DecimalChars == DigitChars \cup {ArabicThree}

IsDecimal(c) == c \in DecimalChars

IsSpace(c) == c \in SpaceChars

IsAlnum(c) == IsLetter(c) \/ IsDigit(c)

\* str.upper() on one character
ToUpper(c) ==
    IF IsLower(c)
    THEN UpperChars[CHOOSE i \in DOMAIN LowerChars : LowerChars[i] = c]
    ELSE c

UpperStr(s) == [i \in DOMAIN s |-> ToUpper(s[i])]

LetterChars == Range(UpperChars) \cup Range(LowerChars)

\* the number of consecutive characters of s, from position from on, that are in
\* the class cls (a greedy quantifier over a character class)
RECURSIVE RunLen(_, _, _)
RunLen(s, from, cls) ==
    IF from <= Len(s) /\ s[from] \in cls THEN 1 + RunLen(s, from + 1, cls) ELSE 0

Min(a, b) == IF a <= b THEN a ELSE b

EndsWith(s, suffix) ==
    /\ Len(s) >= Len(suffix)
    /\ SubSeq(s, Len(s) - Len(suffix) + 1, Len(s)) = suffix

\* s has lit at position from (1-based), compared case-insensitively when ci
HasAt(s, from, lit, ci) ==
    /\ from + Len(lit) - 1 <= Len(s)
    /\ \A k \in 1..Len(lit) :
          IF ci THEN ToUpper(s[from + k - 1]) = ToUpper(lit[k])
                ELSE s[from + k - 1] = lit[k]

(***************************************************************************)
(* gcn_validator.normalize_gcn_number                                      *)
(***************************************************************************)
\* re.sub(r'[^A-Za-z0-9]', '', gcn_str).upper()
Cleaned(gcn_str) == UpperStr(SelectSeq(gcn_str, IsAlnum))

\* re.match(r'^([A-Z]+)(\d+)$', cleaned): the length of group 1, or 0 for no match
LettersDigitsSplit(cleaned) ==
    LET nl == RunLen(cleaned, 1, Range(UpperChars))
        nd == RunLen(cleaned, nl + 1, DecimalChars)
    IN  IF nl >= 1 /\ nd >= 1 /\ nl + nd = Len(cleaned) THEN nl ELSE 0

\* mutant: the digits go through int(), which drops their leading zeros
normalize_gcn_number_int_digits(gcn_str) ==
    LET cleaned == Cleaned(gcn_str)
        nl      == LettersDigitsSplit(cleaned)
        letters == SubSeq(cleaned, 1, nl)
        digits  == SubSeq(cleaned, nl + 1, Len(cleaned))
        zeros   == Min(RunLen(digits, 1, {"0"}), Len(digits) - 1)
        kept    == IF Len(letters) >= 4 THEN SubSeq(letters, Len(letters) - 1, Len(letters))
                   ELSE IF Len(letters) = 3 THEN SubSeq(letters, 3, 3)
                   ELSE letters
    IN  IF nl > 0 THEN kept \o <<" ">> \o SubSeq(digits, zeros + 1, Len(digits))
        ELSE cleaned

\* mutant: four letters or more keep their last three (letters[-3:])
normalize_gcn_number_keeps_three(gcn_str) ==
    LET cleaned == Cleaned(gcn_str)
        nl      == LettersDigitsSplit(cleaned)
        letters == SubSeq(cleaned, 1, nl)
        digits  == SubSeq(cleaned, nl + 1, Len(cleaned))
        kept    == IF Len(letters) >= 4 THEN SubSeq(letters, Len(letters) - 2, Len(letters))
                   ELSE IF Len(letters) = 3 THEN SubSeq(letters, 3, 3)
                   ELSE letters
    IN  IF nl > 0 THEN kept \o <<" ">> \o digits ELSE cleaned

\* mutant: four letters or more keep their first two (letters[:2])
normalize_gcn_number_keeps_first(gcn_str) ==
    LET cleaned == Cleaned(gcn_str)
        nl      == LettersDigitsSplit(cleaned)
        letters == SubSeq(cleaned, 1, nl)
        digits  == SubSeq(cleaned, nl + 1, Len(cleaned))
        kept    == IF Len(letters) >= 4 THEN SubSeq(letters, 1, 2)
                   ELSE IF Len(letters) = 3 THEN SubSeq(letters, 3, 3)
                   ELSE letters
    IN  IF nl > 0 THEN kept \o <<" ">> \o digits ELSE cleaned

normalize_gcn_number(gcn_str) ==
    LET cleaned == Cleaned(gcn_str)
        nl      == LettersDigitsSplit(cleaned)
        letters == SubSeq(cleaned, 1, nl)
        digits  == SubSeq(cleaned, nl + 1, Len(cleaned))
        kept    == IF Len(letters) >= 4 THEN SubSeq(letters, Len(letters) - 1, Len(letters))
                   ELSE IF Len(letters) = 3 THEN SubSeq(letters, 3, 3)
                   ELSE letters
    IN  IF nl > 0 THEN kept \o <<" ">> \o digits ELSE cleaned

(***************************************************************************)
(* gcn_validator.validate_filename_format                                  *)
(***************************************************************************)
GcnPdfSuffix == <<"-","G","C","N",".","p","d","f">>

PdfSuffix == <<".","p","d","f">>

GcnTag == <<"-","G","C","N">>

\* [cls]{nl}\s*\d+ matched from position i: the position of its last digit, or 0
IdEnd(s, i, nl, cls) ==
    IF i >= 1 /\ i + nl - 1 <= Len(s) /\ (\A k \in i..(i + nl - 1) : s[k] \in cls)
    THEN LET ns == RunLen(s, i + nl, SpaceChars)
             nd == RunLen(s, i + nl + ns, DecimalChars)
         IN  IF nd >= 1 THEN i + nl + ns + nd - 1 ELSE 0
    ELSE 0

\* the regular expression's $ : the end of the string, or just before a final newline
AtEnd(s, pos) == pos = Len(s) + 1 \/ (pos = Len(s) /\ s[pos] = "\n")

\* re.match(r'^([A-Z]{1,2})\s*(\d+)-GCN\.pdf$', filename), two letters tried first
FilenamePatternMatches(filename) ==
    \E nl \in {2, 1} :
        LET e == IdEnd(filename, 1, nl, Range(UpperChars))
        IN  /\ e > 0
            /\ HasAt(filename, e + 1, GcnPdfSuffix, FALSE)
            /\ AtEnd(filename, e + 1 + Len(GcnPdfSuffix))

NoReason == [text |-> "", prefix |-> <<>>]

Reason(t) == [text |-> t, prefix |-> <<>>]

\* mutant: the search for a digit comes before the test of the prefix's case
validate_filename_format_digits_first(filename) ==
    IF FilenamePatternMatches(filename) THEN <<TRUE, NoReason>>
    ELSE IF ~EndsWith(filename, PdfSuffix)
         THEN <<FALSE, Reason("Khong phai file PDF")>>
    ELSE IF ~EndsWith(filename, GcnPdfSuffix)
         THEN <<FALSE, Reason("Khong ket thuc bang -GCN.pdf")>>
    ELSE LET np == Min(RunLen(filename, 1, LetterChars), 2)
             prefix == SubSeq(filename, 1, np)
         IN  IF np = 0
             THEN <<FALSE, Reason("Khong co chu cai dau tien")>>
             ELSE IF ~(\E k \in DOMAIN filename : IsDecimal(filename[k]))
             THEN <<FALSE, Reason("Thieu phan so")>>
             ELSE IF \E k \in 1..np : IsLower(prefix[k])
             THEN <<FALSE, [text |-> "Chu cai phai viet HOA", prefix |-> prefix]>>
             ELSE <<FALSE, Reason("Sai format ten file")>>

\* the pair (is_valid, error_msg); the one message that quotes the prefix carries it
validate_filename_format(filename) ==
    IF FilenamePatternMatches(filename) THEN <<TRUE, NoReason>>
    ELSE IF ~EndsWith(filename, PdfSuffix)
         THEN <<FALSE, Reason("Khong phai file PDF")>>
    ELSE IF ~EndsWith(filename, GcnPdfSuffix)
         THEN <<FALSE, Reason("Khong ket thuc bang -GCN.pdf")>>
    ELSE LET np == Min(RunLen(filename, 1, LetterChars), 2)
             prefix == SubSeq(filename, 1, np)
         IN  IF np = 0
             THEN <<FALSE, Reason("Khong co chu cai dau tien")>>
             ELSE IF \E k \in 1..np : IsLower(prefix[k])
             THEN <<FALSE, [text |-> "Chu cai phai viet HOA", prefix |-> prefix]>>
             ELSE IF ~(\E k \in DOMAIN filename : IsDecimal(filename[k]))
             THEN <<FALSE, Reason("Thieu phan so")>>
             ELSE <<FALSE, Reason("Sai format ten file")>>

(***************************************************************************)
(* gcn_validator.extract_gcn_from_filename                                 *)
(***************************************************************************)
UNKNOWN == <<"U","N","K","N","O","W","N">>

\* ([A-Z]{1,2}\s*\d+) followed by tail, matched from position i with
\* re.IGNORECASE: the position of the group's last character, or 0
GroupEnd(s, i, tail) ==
    LET e2 == IdEnd(s, i, 2, LetterChars)
        e1 == IdEnd(s, i, 1, LetterChars)
    IN  IF e2 > 0 /\ HasAt(s, e2 + 1, tail, TRUE) THEN e2
        ELSE IF e1 > 0 /\ HasAt(s, e1 + 1, tail, TRUE) THEN e1
        ELSE 0

\* re.search: the leftmost position where the pattern matches, or 0
FirstMatch(s, lead, tail) ==
    LET ok(i) == HasAt(s, i, lead, TRUE) /\ GroupEnd(s, i + Len(lead), tail) > 0
        hits  == {i \in 1..Len(s) : ok(i)}
    IN  IF hits = {} THEN 0 ELSE CHOOSE i \in hits : \A j \in hits : i <= j

SearchGroup(s, lead, tail) ==
    LET i == FirstMatch(s, lead, tail)
    IN  SubSeq(s, i + Len(lead), GroupEnd(s, i + Len(lead), tail))

\* mutant: the matched group is returned as it stands in the name
extract_gcn_from_filename_raw(filename) ==
    IF FirstMatch(filename, <<>>, GcnTag) > 0
    THEN SearchGroup(filename, <<>>, GcnTag)
    ELSE IF FirstMatch(filename, <<"_">>, <<"-">>) > 0
    THEN SearchGroup(filename, <<"_">>, <<"-">>)
    ELSE UNKNOWN

extract_gcn_from_filename(filename) ==
    IF FirstMatch(filename, <<>>, GcnTag) > 0
    THEN normalize_gcn_number(SearchGroup(filename, <<>>, GcnTag))
    ELSE IF FirstMatch(filename, <<"_">>, <<"-">>) > 0
    THEN normalize_gcn_number(SearchGroup(filename, <<"_">>, <<"-">>))
    ELSE UNKNOWN

(***************************************************************************)
(* gcn_validator.compare_gcn                                               *)
(***************************************************************************)
\* the verdict strings "Đúng" and "Cần hiệu đính", and the processor's "N/A"
Match == "Dung"

Mismatch == "Can hieu dinh"

NotApplicable == "N/A"

\* mutant: the two strings are compared as given
compare_gcn_raw(filename_gcn, predicted_gcn) ==
    IF filename_gcn = predicted_gcn THEN Match ELSE Mismatch

\* mutant: the verdicts are exchanged
compare_gcn_inverted(filename_gcn, predicted_gcn) ==
    IF normalize_gcn_number(filename_gcn) = normalize_gcn_number(predicted_gcn)
    THEN Mismatch ELSE Match

compare_gcn(filename_gcn, predicted_gcn) ==
    IF normalize_gcn_number(filename_gcn) = normalize_gcn_number(predicted_gcn)
    THEN Match ELSE Mismatch

(***************************************************************************)
(* The files of a batch, the recognition service and the bounds.           *)
(***************************************************************************)
\* the batch length N
NumTasks == 2

\* the files on disk: path 1 has a well-formed name, path 2 a lowercase prefix
FileNames ==
    << <<"A","A"," ","1","-","G","C","N",".","p","d","f">>,
       <<"a","a","1","-","G","C","N",".","p","d","f">> >>

Paths == DOMAIN FileNames

Tasks == 1..NumTasks

\* the recognition adapter's failure sentinel
ERROR == <<"E","R","R","O","R">>

\* what extract_gcn_with_llm returns: (text, None) on an answer of the service (one
\* that matches path 1's name, one that does not, an empty one, one that
\* normalises to the sentinel), ("ERROR", message) from its except clauses (the
\* timeout and the request error; the last clause differs in the message only)
LlmAnswers ==
    { <<"a","a"," ","1">>, <<"A","B","1">>, <<>>, <<"e","r","r","o","r">> }

LlmFailures == {"LLM API timeout", "LLM API error"}

extract_gcn_with_llm_outcomes ==
    {<<a, "None">> : a \in LlmAnswers} \cup {<<ERROR, m>> : m \in LlmFailures}

\* time.time() - start: the measured duration is kept as one opaque value, told
\* apart from the literal 0 that a cache hit reports
ElapsedValues == {1}

(***************************************************************************)
(* State.                                                                  *)
(***************************************************************************)
VARIABLES
    pdf_files,       \* process_batch_pdfs: the submitted list, task i is pdf_files[i]
    max_workers,     \* process_batch_pdfs: the pool size
    cache,           \* whether a ProcessedCache is passed (cache is not None)
    skip_processed,  \* the skip_processed flag
    fsize,           \* the size of each file on disk (st_size)
    db,              \* the rows of table processed_files
    now,             \* datetime.now(), advanced by every committed write
    pc,              \* where each task's process_single_pdf call stands
    result,          \* each task's result dict
    collected,       \* the futures the as_completed loop has consumed
    results,         \* process_batch_pdfs: the results list
    returned,        \* whether process_batch_pdfs has returned results
    unexpected,      \* the tasks whose exception the loop printed
    extractCalls,    \* per task, the calls of extract_page2_to_base64
    llmCalls,        \* per task, the calls of extract_gcn_with_llm
    present,         \* per task, whether its record was in the table at the cache check
    lastWrite,       \* per fingerprint, the row of the last committed add_processed
    rendering,       \* per task, how the rendering of page 2 ended inside
                     \* extract_page2_to_base64
    llmError,        \* per task, the message extract_gcn_with_llm returned beside
                     \* its text ("None" when the service answered)
    run,             \* which run over the files this is: "first" or "second"
    firstResult,     \* in the second run, each task's result dict of the first run
    gcn_str,         \* the argument of normalize_gcn_number
    normalized,      \* what successive calls of normalize_gcn_number returned
    filename,        \* the argument of validate_filename_format and of
                     \* extract_gcn_from_filename
    checked,         \* what validate_filename_format returned, once called
    extracted,       \* what extract_gcn_from_filename returned, once called
    pair,            \* the two arguments of compare_gcn
    verdict,         \* what compare_gcn returned for them, as given and normalised
    fingerprints,    \* what successive calls of _get_file_hash returned for a file
    stats,           \* the statistics computed from the returned results
    gate,            \* what the comparison gate made of a pair of identifiers
    snapshot         \* the get_cache_stats call in progress, and what it returned

vars == <<pdf_files, max_workers, cache, skip_processed, fsize, db, now, pc, result,
          collected, results, returned, unexpected, extractCalls, llmCalls, present,
          lastWrite, rendering, llmError, run, firstResult, gcn_str,
          normalized, filename, checked, extracted, pair, verdict, fingerprints,
          stats, gate, snapshot>>

\* no get_cache_stats call has been made
NoSnapshot == [at |-> "idle"]

\* what a batch run never touches
alone == <<filename, checked, extracted, pair, verdict, fingerprints, stats, gate,
           snapshot>>

aside == <<run, firstResult, gcn_str, normalized, alone>>

config == <<pdf_files, max_workers, cache, skip_processed, fsize>>

NoError == [msg |-> "None", llm |-> "None", reason |-> NoReason, gcn |-> <<>>]

Error(msg, llm, reason, gcn) == [msg |-> msg, llm |-> llm, reason |-> reason, gcn |-> gcn]

NoResult == [status |-> "unset"]

(***************************************************************************)
(* processed_cache.ProcessedCache                                          *)
(***************************************************************************)
\* st_size could not be read
NoStat == -1

\* mutant: no except clause, so a failing stat gives no fingerprint at all
_get_file_hash_unguarded(file_path) ==
    IF fsize[file_path] = NoStat THEN <<>> ELSE <<file_path, fsize[file_path]>>

\* md5 of "path_size", or of the path alone when stat fails; md5 is taken to be
\* injective, so the hashed text stands for the hash
_get_file_hash(file_path) ==
    IF fsize[file_path] = NoStat THEN <<file_path>> ELSE <<file_path, fsize[file_path]>>

RowsOf(file_hash) == {r \in db : r.file_hash = file_hash}

\* mutant: the lookup hashes the path alone, the write the path and the size
is_processed_path_only(file_path) == RowsOf(<<file_path>>) # {}

\* SELECT 1 FROM processed_files WHERE file_hash = ? ... fetchone() is not None
is_processed(file_path) == RowsOf(_get_file_hash(file_path)) # {}

None == [status |-> "None"]

\* SELECT ... WHERE file_hash = ? ... fetchone(), as a dict without the hash
get_processed_result(file_path) ==
    IF RowsOf(_get_file_hash(file_path)) = {} THEN None
    ELSE LET row == CHOOSE r \in RowsOf(_get_file_hash(file_path)) : TRUE
         IN  [file_path     |-> row.file_path,
              file_name     |-> row.file_name,
              processed_at  |-> row.processed_at,
              status        |-> row.status,
              comparison    |-> row.comparison,
              filename_gcn  |-> row.filename_gcn,
              predicted_gcn |-> row.predicted_gcn,
              error         |-> row.error]

\* the row add_processed binds to the REPLACE statement
NewRow(file_path, res) ==
    [file_hash     |-> _get_file_hash(file_path),
     file_path     |-> file_path,
     file_name     |-> FileNames[file_path],
     processed_at  |-> now,
     status        |-> res.status,
     comparison    |-> res.comparison,
     filename_gcn  |-> res.filename_gcn,
     predicted_gcn |-> res.predicted_gcn,
     error         |-> res.error]

\* mutant: a plain INSERT into a table without the primary key
InsertInto(table, row) == table \cup {row}

\* REPLACE INTO a table whose PRIMARY KEY is file_hash: the rows in conflict
\* with the new row are deleted, then the new row is inserted
ReplaceInto(table, row) == {r \in table : r.file_hash # row.file_hash} \cup {row}

\* mutant: an existing row is updated in part (status, verdict and time) instead
\* of being replaced
add_processed_partial(file_path, res) ==
    LET old == RowsOf(_get_file_hash(file_path))
    IN  IF old = {} THEN ReplaceInto(db, NewRow(file_path, res))
        ELSE (db \ old) \cup
             {[r EXCEPT !.status = res.status, !.comparison = res.comparison,
                        !.processed_at = now] : r \in old}

\* mutant: the table is emptied before the row is inserted
add_processed_alone(file_path, res) == {NewRow(file_path, res)}

\* the table after add_processed commits
add_processed(file_path, res) == ReplaceInto(db, NewRow(file_path, res))

(***************************************************************************)
(* processor.process_single_pdf, one action per step of a task             *)
(***************************************************************************)
Running(t) == pc[t] \in {"start", "hit", "validate", "extract", "recognize", "finally"}

Finished(t) == pc[t] \in {"returned", "raised"}

\* the result dict of lines 59-70
PendingResult(t) ==
    [index         |-> t,
     pdf_file      |-> FileNames[pdf_files[t]],
     pdf_path      |-> pdf_files[t],
     filename_gcn  |-> <<>>,
     predicted_gcn |-> <<>>,
     comparison    |-> "",
     status        |-> "pending",
     error         |-> NoError,
     time          |-> 0,
     from_cache    |-> FALSE]

\* mutant: the hit result carries no error detail and no processed_at
CachedResultBare(t, cached_result) ==
    [index         |-> t,
     pdf_file      |-> FileNames[pdf_files[t]],
     pdf_path      |-> pdf_files[t],
     filename_gcn  |-> cached_result.filename_gcn,
     predicted_gcn |-> cached_result.predicted_gcn,
     comparison    |-> cached_result.comparison,
     status        |-> "cached",
     error         |-> NoError,
     time          |-> 0,
     from_cache    |-> TRUE,
     processed_at  |-> 0]

\* the result dict of lines 44-56, built from the stored record
CachedResult(t, cached_result) ==
    [index         |-> t,
     pdf_file      |-> FileNames[pdf_files[t]],
     pdf_path      |-> pdf_files[t],
     filename_gcn  |-> cached_result.filename_gcn,
     predicted_gcn |-> cached_result.predicted_gcn,
     comparison    |-> cached_result.comparison,
     status        |-> "cached",
     error         |-> cached_result.error,
     time          |-> 0,
     from_cache    |-> TRUE,
     processed_at  |-> cached_result.processed_at]

\* mutant: only successful results are written back
ShouldSaveSuccessOnly(status) == cache /\ status = "success"

\* line 131: the statuses that are written back
ShouldSave(status) == cache /\ status \in {"success", "skip", "error"}

\* mutant: the error text leaves out what extract_gcn_with_llm reported
ComparedDropsDiagnostic(res, predicted_gcn_raw, llm_error) ==
    LET filename_gcn  == res.filename_gcn
        predicted_gcn == IF predicted_gcn_raw # ERROR
                         THEN normalize_gcn_number(predicted_gcn_raw)
                         ELSE predicted_gcn_raw
        withPred      == [res EXCEPT !.predicted_gcn = predicted_gcn]
    IN  IF predicted_gcn # ERROR /\ filename_gcn # UNKNOWN
        THEN [withPred EXCEPT !.comparison = compare_gcn(filename_gcn, predicted_gcn),
                              !.status = "success"]
        ELSE [withPred EXCEPT
                !.comparison = NotApplicable,
                !.status = "error",
                !.error =
                    IF predicted_gcn = ERROR /\ filename_gcn = UNKNOWN
                    THEN Error("Both LLM and filename failed", "None",
                               NoReason, <<>>)
                    ELSE IF predicted_gcn = ERROR
                    THEN Error("LLM extraction failed. Filename GCN: ", "None",
                               NoReason, filename_gcn)
                    ELSE IF filename_gcn = UNKNOWN
                    THEN Error("Cannot parse GCN from filename. LLM predicted: ", "None",
                               NoReason, predicted_gcn)
                    ELSE Error("Cannot extract GCN number", "None", NoReason, <<>>)]

\* mutant: the error text leaves out the identifier of the side that succeeded
ComparedDropsValue(res, predicted_gcn_raw, llm_error) ==
    LET filename_gcn  == res.filename_gcn
        predicted_gcn == IF predicted_gcn_raw # ERROR
                         THEN normalize_gcn_number(predicted_gcn_raw)
                         ELSE predicted_gcn_raw
        withPred      == [res EXCEPT !.predicted_gcn = predicted_gcn]
    IN  IF predicted_gcn # ERROR /\ filename_gcn # UNKNOWN
        THEN [withPred EXCEPT !.comparison = compare_gcn(filename_gcn, predicted_gcn),
                              !.status = "success"]
        ELSE [withPred EXCEPT
                !.comparison = NotApplicable,
                !.status = "error",
                !.error =
                    IF predicted_gcn = ERROR /\ filename_gcn = UNKNOWN
                    THEN Error("Both LLM and filename failed. LLM: ", llm_error,
                               NoReason, <<>>)
                    ELSE IF predicted_gcn = ERROR
                    THEN Error("LLM extraction failed: . Filename GCN: ", llm_error,
                               NoReason, <<>>)
                    ELSE Error("Cannot parse GCN from filename. LLM predicted: ", "None",
                               NoReason, <<>>)]

\* mutant: the verdict is computed before the gate and kept when the gate fails
ComparedBeforeGate(res, predicted_gcn_raw, llm_error) ==
    LET filename_gcn  == res.filename_gcn
        predicted_gcn == IF predicted_gcn_raw # ERROR
                         THEN normalize_gcn_number(predicted_gcn_raw)
                         ELSE predicted_gcn_raw
        withPred      == [res EXCEPT !.predicted_gcn = predicted_gcn,
                                     !.comparison = compare_gcn(filename_gcn, predicted_gcn)]
    IN  IF predicted_gcn # ERROR /\ filename_gcn # UNKNOWN
        THEN [withPred EXCEPT !.status = "success"]
        ELSE [withPred EXCEPT
                !.status = "error",
                !.error = Error("LLM extraction failed: . Filename GCN: ", llm_error,
                                NoReason, filename_gcn)]

\* lines 96-120: normalisation of the answer, the comparison gate and the error text
Compared(res, predicted_gcn_raw, llm_error) ==
    LET filename_gcn  == res.filename_gcn
        predicted_gcn == IF predicted_gcn_raw # ERROR
                         THEN normalize_gcn_number(predicted_gcn_raw)
                         ELSE predicted_gcn_raw
        withPred      == [res EXCEPT !.predicted_gcn = predicted_gcn]
    IN  IF predicted_gcn # ERROR /\ filename_gcn # UNKNOWN
        THEN [withPred EXCEPT !.comparison = compare_gcn(filename_gcn, predicted_gcn),
                              !.status = "success"]
        ELSE [withPred EXCEPT
                !.comparison = NotApplicable,
                !.status = "error",
                !.error =
                    IF predicted_gcn = ERROR /\ filename_gcn = UNKNOWN
                    THEN Error("Both LLM and filename failed. LLM: ", llm_error,
                               NoReason, <<>>)
                    ELSE IF predicted_gcn = ERROR
                    THEN Error("LLM extraction failed: . Filename GCN: ", llm_error,
                               NoReason, filename_gcn)
                    ELSE IF filename_gcn = UNKNOWN
                    THEN Error("Cannot parse GCN from filename. LLM predicted: ", "None",
                               NoReason, predicted_gcn)
                    ELSE Error("Cannot extract GCN number", "None", NoReason, <<>>)]

\* mutant: one thread per submitted call, whatever max_workers is
SubmitUnbounded(t) ==
    /\ pc[t] = "queued"
    /\ \A u \in Tasks : u < t => pc[u] # "queued"
    /\ pc' = [pc EXCEPT ![t] = "start"]
    /\ UNCHANGED <<config, rendering, llmError, aside,
                   db, now, result, collected, results, returned, unexpected,
                   extractCalls, llmCalls, present, lastWrite>>

\* a pool thread takes the next queued call: the executor's queue is first in,
\* first out, and at most max_workers threads run
Submit(t) ==
    /\ pc[t] = "queued"
    /\ \A u \in Tasks : u < t => pc[u] # "queued"
    /\ Cardinality({u \in Tasks : Running(u)}) < max_workers
    /\ pc' = [pc EXCEPT ![t] = "start"]
    /\ UNCHANGED <<config, rendering, llmError, aside,
                   db, now, result, collected, results, returned, unexpected,
                   extractCalls, llmCalls, present, lastWrite>>

\* mutant: the lookup is made whenever a cache is supplied
CacheCheckAlways(t) ==
    /\ pc[t] = "start"
    /\ IF cache
       THEN /\ present' = [present EXCEPT ![t] = RowsOf(_get_file_hash(pdf_files[t])) # {}]
            /\ \/ pc' = [pc EXCEPT ![t] = IF is_processed(pdf_files[t]) THEN "hit"
                                          ELSE "validate"]
               \/ pc' = [pc EXCEPT ![t] = "raised"]
       ELSE /\ pc' = [pc EXCEPT ![t] = "validate"]
            /\ UNCHANGED present
    /\ UNCHANGED <<config, rendering, llmError, aside,
                   db, now, result, collected, results, returned, unexpected,
                   extractCalls, llmCalls, lastWrite>>

\* line 42: cache and skip_processed and cache.is_processed(pdf_path)
CacheCheck(t) ==
    /\ pc[t] = "start"
    /\ IF cache /\ skip_processed
       THEN /\ present' = [present EXCEPT ![t] = RowsOf(_get_file_hash(pdf_files[t])) # {}]
            /\ \/ pc' = [pc EXCEPT ![t] = IF is_processed(pdf_files[t]) THEN "hit"
                                          ELSE "validate"]
               \/ \* sqlite3 raises (locked, unreadable or full database)
                  pc' = [pc EXCEPT ![t] = "raised"]
       ELSE /\ pc' = [pc EXCEPT ![t] = "validate"]
            /\ UNCHANGED present
    /\ UNCHANGED <<config, rendering, llmError, aside,
                   db, now, result, collected, results, returned, unexpected,
                   extractCalls, llmCalls, lastWrite>>

\* mutant: the hit path writes the record again, with a new processed_at
CacheHitRewrites(t) ==
    /\ pc[t] = "hit"
    /\ LET cached_result == get_processed_result(pdf_files[t])
       IN  /\ cached_result # None
           /\ result' = [result EXCEPT ![t] = CachedResult(t, cached_result)]
           /\ db' = ReplaceInto(db, NewRow(pdf_files[t], cached_result))
           /\ pc' = [pc EXCEPT ![t] = "returned"]
    /\ now' = now + 1
    /\ UNCHANGED <<config, rendering, llmError, aside,
                   collected, results, returned, unexpected,
                   extractCalls, llmCalls, present, lastWrite>>

\* mutant: a record that has been served is deleted from the table
CacheHitEvicts(t) ==
    /\ pc[t] = "hit"
    /\ \/ LET cached_result == get_processed_result(pdf_files[t])
          IN  IF cached_result = None
              THEN /\ pc' = [pc EXCEPT ![t] = "raised"]
                   /\ UNCHANGED <<result, db>>
              ELSE /\ result' = [result EXCEPT ![t] = CachedResult(t, cached_result)]
                   /\ db' = db \ RowsOf(_get_file_hash(pdf_files[t]))
                   /\ pc' = [pc EXCEPT ![t] = "returned"]
       \/ /\ pc' = [pc EXCEPT ![t] = "raised"]
          /\ UNCHANGED <<result, db>>
    /\ UNCHANGED <<config, rendering, llmError, aside,
                   now, collected, results, returned, unexpected,
                   extractCalls, llmCalls, present, lastWrite>>

\* lines 43-57: the stored record becomes the result; a None record makes
\* cached_result.get raise AttributeError
CacheHit(t) ==
    /\ pc[t] = "hit"
    /\ \/ LET cached_result == get_processed_result(pdf_files[t])
          IN  IF cached_result = None
              THEN /\ pc' = [pc EXCEPT ![t] = "raised"]
                   /\ UNCHANGED result
              ELSE /\ result' = [result EXCEPT ![t] = CachedResult(t, cached_result)]
                   /\ pc' = [pc EXCEPT ![t] = "returned"]
       \/ \* sqlite3 raises
          /\ pc' = [pc EXCEPT ![t] = "raised"]
          /\ UNCHANGED result
    /\ UNCHANGED <<config, rendering, llmError, aside,
                   db, now, collected, results, returned, unexpected,
                   extractCalls, llmCalls, present, lastWrite>>

\* line 73: validate_filename_format(pdf_path.name), for each file of the batch
FilenameCheck == [p \in Paths |-> validate_filename_format(FileNames[p])]

\* line 82: extract_gcn_from_filename(pdf_path.name), for each file of the batch
FilenameGcn == [p \in Paths |-> extract_gcn_from_filename(FileNames[p])]

\* mutant: the filename identifier is extracted before the name is checked
ValidateExtractsFirst(t) ==
    /\ pc[t] = "validate"
    /\ LET valid   == FilenameCheck[pdf_files[t]]
           pending == [PendingResult(t) EXCEPT
                          !.filename_gcn = FilenameGcn[pdf_files[t]]]
       IN  IF ~valid[1]
           THEN /\ result' = [result EXCEPT ![t] =
                      [pending EXCEPT
                          !.status = "skip",
                          !.error = Error("Sai ten file: ", "None", valid[2], <<>>),
                          !.comparison = NotApplicable]]
                /\ pc' = [pc EXCEPT ![t] = "finally"]
           ELSE /\ result' = [result EXCEPT ![t] = pending]
                /\ pc' = [pc EXCEPT ![t] = "extract"]
    /\ UNCHANGED <<config, rendering, llmError, aside,
                   db, now, collected, results, returned, unexpected,
                   extractCalls, llmCalls, present, lastWrite>>

\* lines 59-83: the pending result, the filename check and the filename identifier
Validate(t) ==
    /\ pc[t] = "validate"
    /\ LET valid == FilenameCheck[pdf_files[t]]
       IN  IF ~valid[1]
           THEN /\ result' = [result EXCEPT ![t] =
                      [PendingResult(t) EXCEPT
                          !.status = "skip",
                          !.error = Error("Sai ten file: ", "None", valid[2], <<>>),
                          !.comparison = NotApplicable]]
                /\ pc' = [pc EXCEPT ![t] = "finally"]
           ELSE /\ result' = [result EXCEPT ![t] =
                      [PendingResult(t) EXCEPT
                          !.filename_gcn = FilenameGcn[pdf_files[t]]]]
                /\ pc' = [pc EXCEPT ![t] = "extract"]
    /\ UNCHANGED <<config, rendering, llmError, aside,
                   db, now, collected, results, returned, unexpected,
                   extractCalls, llmCalls, present, lastWrite>>

\* pdf_utils.extract_page2_to_base64, by how fitz and PIL fare inside it: page 2
\* is rendered, the document has fewer than two pages, or an exception is raised
RenderOutcomes == {"rendered", "no page 2", "exception"}

\* lines 38-64 of pdf_utils.py: the image, or None when there is no page 2 and
\* when an exception is caught (it is only printed)
extract_page2_to_base64(outcome) ==
    IF outcome = "rendered" THEN "image" ELSE "None"

\* mutant: the branch for a missing image does not return, so the recognition
\* call follows all the same
ExtractPageFallsThrough(t) ==
    /\ pc[t] = "extract"
    /\ extractCalls' = [extractCalls EXCEPT ![t] = @ + 1]
    /\ \E outcome \in RenderOutcomes :
          /\ rendering' = [rendering EXCEPT ![t] = outcome]
          /\ IF extract_page2_to_base64(outcome) = "None"
             THEN /\ result' = [result EXCEPT ![t] =
                         [@ EXCEPT !.status = "skip",
                                   !.error = Error("No page 2", "None", NoReason, <<>>),
                                   !.comparison = NotApplicable]]
                  /\ pc' = [pc EXCEPT ![t] = "recognize"]
             ELSE /\ pc' = [pc EXCEPT ![t] = "recognize"]
                  /\ UNCHANGED result
    /\ UNCHANGED <<config, llmError, aside, db, now, collected, results, returned,
                   unexpected, llmCalls, present, lastWrite>>

\* lines 85-91: the page image, or the task is skipped with "No page 2"
ExtractPage(t) ==
    /\ pc[t] = "extract"
    /\ extractCalls' = [extractCalls EXCEPT ![t] = @ + 1]
    /\ \E outcome \in RenderOutcomes :
          /\ rendering' = [rendering EXCEPT ![t] = outcome]
          /\ IF extract_page2_to_base64(outcome) = "None"
             THEN /\ result' = [result EXCEPT ![t] =
                         [@ EXCEPT !.status = "skip",
                                   !.error = Error("No page 2", "None", NoReason, <<>>),
                                   !.comparison = NotApplicable]]
                  /\ pc' = [pc EXCEPT ![t] = "finally"]
             ELSE /\ pc' = [pc EXCEPT ![t] = "recognize"]
                  /\ UNCHANGED result
    /\ UNCHANGED <<config, llmError, aside, db, now, collected, results, returned,
                   unexpected,
                   llmCalls, present, lastWrite>>

\* mutant: a recognition call that fails is made again
RecognizeRetries(t) ==
    /\ pc[t] = "recognize"
    /\ llmCalls' = [llmCalls EXCEPT ![t] = @ + 1]
    /\ \E out \in extract_gcn_with_llm_outcomes :
          /\ llmError' = [llmError EXCEPT ![t] = out[2]]
          /\ result' = [result EXCEPT ![t] = Compared(@, out[1], out[2])]
          /\ pc' = [pc EXCEPT ![t] = IF out[2] \in LlmFailures THEN "recognize"
                                      ELSE "finally"]
    /\ UNCHANGED <<config, rendering, aside,
                   db, now, collected, results, returned, unexpected,
                   extractCalls, present, lastWrite>>

\* lines 93-120: the recognition call, then normalisation and comparison
Recognize(t) ==
    /\ pc[t] = "recognize"
    /\ llmCalls' = [llmCalls EXCEPT ![t] = @ + 1]
    /\ \E out \in extract_gcn_with_llm_outcomes :
          /\ llmError' = [llmError EXCEPT ![t] = out[2]]
          /\ result' = [result EXCEPT ![t] = Compared(@, out[1], out[2])]
    /\ pc' = [pc EXCEPT ![t] = "finally"]
    /\ UNCHANGED <<config, rendering, aside, db, now, collected, results, returned, unexpected,
                   extractCalls, present, lastWrite>>

\* lines 127-134: the elapsed time, the write to the cache, the return
Finally(t) ==
    /\ pc[t] = "finally"
    /\ \E elapsed \in ElapsedValues :
          LET res == [result[t] EXCEPT !.time = elapsed]
          IN  /\ result' = [result EXCEPT ![t] = res]
              /\ IF ShouldSave(res.status)
                 THEN \/ /\ db' = add_processed(pdf_files[t], res)
                         /\ lastWrite' =
                               {r \in lastWrite :
                                   r.file_hash # _get_file_hash(pdf_files[t])}
                               \cup {NewRow(pdf_files[t], res)}
                         /\ now' = now + 1
                         /\ pc' = [pc EXCEPT ![t] = "returned"]
                      \/ \* sqlite3 raises: nothing is committed
                         /\ pc' = [pc EXCEPT ![t] = "raised"]
                         /\ UNCHANGED <<db, lastWrite, now>>
                 ELSE /\ pc' = [pc EXCEPT ![t] = "returned"]
                      /\ UNCHANGED <<db, lastWrite, now>>
    /\ UNCHANGED <<config, rendering, llmError, aside,
                   collected, results, returned, unexpected,
                   extractCalls, llmCalls, present>>

(***************************************************************************)
(* processor.process_batch_pdfs                                            *)
(***************************************************************************)
\* list.sort(key=lambda x: x["index"]): a stable insertion into a sorted list
RECURSIVE SortByIndex(_)
SortByIndex(list) ==
    IF list = <<>> THEN <<>>
    ELSE LET x    == list[Len(list)]
             rest == SortByIndex(SubSeq(list, 1, Len(list) - 1))
             k    == Cardinality({i \in DOMAIN rest : rest[i].index <= x.index})
         IN  SubSeq(rest, 1, k) \o <<x>> \o SubSeq(rest, k + 1, Len(rest))

\* mutant: future.result() outside any try, so the exception of a task ends the
\* loop and the batch there and then
CollectAborts(t) ==
    /\ ~returned
    /\ Finished(t)
    /\ t \notin collected
    /\ IF pc[t] = "returned"
       THEN /\ results' = Append(results, result[t])
            /\ collected' = collected \cup {t}
            /\ UNCHANGED <<unexpected, returned>>
       ELSE /\ returned' = TRUE
            /\ UNCHANGED <<results, collected, unexpected>>
    /\ UNCHANGED <<config, rendering, llmError, aside,
                   db, now, pc, result, extractCalls, llmCalls,
                   present, lastWrite>>

\* lines 167-186: the as_completed loop takes a finished future; its result is
\* appended, its exception only printed
Collect(t) ==
    /\ ~returned
    /\ Finished(t)
    /\ t \notin collected
    /\ collected' = collected \cup {t}
    /\ IF pc[t] = "returned"
       THEN /\ results' = Append(results, result[t])
            /\ UNCHANGED unexpected
       ELSE /\ unexpected' = unexpected \cup {t}
            /\ UNCHANGED results
    /\ UNCHANGED <<config, rendering, llmError, aside,
                   db, now, pc, result, returned, extractCalls, llmCalls,
                   present, lastWrite>>

\* lines 188-190: every future is consumed, the list is sorted and returned
ReturnBatch ==
    /\ ~returned
    /\ collected = Tasks
    /\ results' = SortByIndex(results)
    /\ returned' = TRUE
    /\ UNCHANGED <<config, rendering, llmError, aside,
                   db, now, pc, result, collected, unexpected, extractCalls,
                   llmCalls, present, lastWrite>>

\* the futures the loop has consumed so far, counted whether the future gave a
\* result or an exception
completed == Cardinality(collected)

\* none of the functions checked on their own has been called
NoCalls ==
    /\ filename = <<>>
    /\ checked = <<>>
    /\ extracted = <<>>
    /\ pair = <<<<>>, <<>>>>
    /\ verdict = <<>>
    /\ fingerprints = <<>>
    /\ stats = <<>>
    /\ gate = <<>>
    /\ snapshot = NoSnapshot

Init ==
    /\ pdf_files \in [Tasks -> Paths]
    /\ max_workers \in 1..NumTasks
    /\ cache \in BOOLEAN
    /\ skip_processed \in BOOLEAN
    /\ fsize = [p \in Paths |-> 100 * p]
    /\ db = {}
    /\ now = 1
    /\ pc = [t \in Tasks |-> "queued"]
    /\ result = [t \in Tasks |-> NoResult]
    /\ collected = {}
    /\ results = <<>>
    /\ returned = FALSE
    /\ unexpected = {}
    /\ extractCalls = [t \in Tasks |-> 0]
    /\ llmCalls = [t \in Tasks |-> 0]
    /\ present = [t \in Tasks |-> FALSE]
    /\ lastWrite = {}
    /\ rendering = [t \in Tasks |-> "none"]
    /\ llmError = [t \in Tasks |-> "unset"]
    /\ run = "first"
    /\ firstResult = [t \in Tasks |-> NoResult]
    /\ gcn_str = <<>>
    /\ normalized = <<>>
    /\ NoCalls

Next ==
    \/ \E t \in Tasks : Submit(t)
    \/ \E t \in Tasks : CacheCheck(t)
    \/ \E t \in Tasks : CacheHit(t)
    \/ \E t \in Tasks : Validate(t)
    \/ \E t \in Tasks : ExtractPage(t)
    \/ \E t \in Tasks : Recognize(t)
    \/ \E t \in Tasks : Finally(t)
    \/ \E t \in Tasks : Collect(t)
    \/ ReturnBatch

Spec == Init /\ [][Next]_vars

(***************************************************************************)
(* Properties of the batch and of the per-file pipeline.                   *)
(***************************************************************************)
FileHashOf(t) == _get_file_hash(pdf_files[t])

\* C1: for every batch and every pool size, whatever the completion order, the
\* list process_batch_pdfs returns has, at every position i, the result whose
\* index is i.
C1_IndexedInOrder ==
    returned => \A i \in 1..Len(results) : results[i].index = i

\* C2: every submitted task, succeeding or failing, has exactly one result in
\* the returned list, whose length is therefore N.
C2_OneResultPerTask ==
    returned =>
        /\ Len(results) = NumTasks
        /\ \A t \in Tasks : Cardinality({i \in DOMAIN results : results[i].index = t}) = 1

\* C3: a task whose record is in the cache when it is looked up, with cache usage
\* enabled, issues no page extraction and no recognition call, and the result
\* it returns has status cached and time 0.
C3_CacheShortCircuit ==
    \A t \in Tasks :
        (cache /\ skip_processed /\ present[t]) =>
            /\ extractCalls[t] = 0
            /\ llmCalls[t] = 0
            /\ pc[t] \notin {"validate", "extract", "recognize", "finally"}
            /\ pc[t] = "returned" =>
                  result[t].status = "cached" /\ result[t].time = 0

C3_Witness ==
    \E t \in Tasks :
        /\ cache /\ skip_processed /\ present[t]
        /\ pc[t] = "returned"
        /\ result[t].status = "cached"

TimedOut(t) ==
    /\ llmCalls[t] > 0
    /\ result[t].predicted_gcn = ERROR
    /\ result[t].error.llm = "LLM API timeout"

\* C4: when one task's recognition call times out, the batch still returns N
\* results and the result of that task has status error.
C4_TimeoutIsolated ==
    \A t \in Tasks :
        (returned /\ TimedOut(t)) =>
            /\ Len(results) = NumTasks
            /\ \E i \in DOMAIN results :
                  results[i].index = t /\ results[i].status = "error"

Absent(id) == id = <<>>

\* C5, as claimed: the verdict of a returned result is Match if and only if its
\* status is success or cached and the normalized identifiers are equal.
C5_MatchIffEqual ==
    \A t \in Tasks :
        pc[t] = "returned" =>
            (result[t].comparison = Match
                <=> /\ result[t].status \in {"success", "cached"}
                    /\ normalize_gcn_number(result[t].filename_gcn)
                          = normalize_gcn_number(result[t].predicted_gcn))

\* C5, amended: the verdict of a returned result is Match if and only if its
\* status is success or cached, its filename identifier is not empty and the
\* normalized identifiers are equal.
C5_MatchIffEqualPresent ==
    \A t \in Tasks :
        pc[t] = "returned" =>
            (result[t].comparison = Match
                <=> /\ result[t].status \in {"success", "cached"}
                    /\ ~Absent(result[t].filename_gcn)
                    /\ normalize_gcn_number(result[t].filename_gcn)
                          = normalize_gcn_number(result[t].predicted_gcn))

C5_Witness ==
    \E t \in Tasks :
        /\ pc[t] = "returned" /\ result[t].status = "cached"
        /\ result[t].comparison = Match
        /\ result[t].filename_gcn = normalize_gcn_number(result[t].predicted_gcn)

\* C6: in every returned result, an absent filename identifier (empty or
\* UNKNOWN) or an absent or ERROR recognized identifier comes with verdict N/A.
C6_AbsentIsNotApplicable ==
    \A t \in Tasks :
        (/\ pc[t] = "returned"
         /\ \/ Absent(result[t].filename_gcn)
            \/ result[t].filename_gcn = UNKNOWN
            \/ Absent(result[t].predicted_gcn)
            \/ result[t].predicted_gcn = ERROR)
        => result[t].comparison = NotApplicable

\* C7: the table holds at most one row per fingerprint, and that row is the one
\* the last committed add_processed for the fingerprint wrote.
C7_OneRecordPerFingerprint ==
    \A r \in db :
        /\ RowsOf(r.file_hash) = {r}
        /\ r \in lastWrite

C7_Witness ==
    \E t, u \in Tasks :
        /\ t # u /\ FileHashOf(t) = FileHashOf(u)
        /\ pc[t] = "returned" /\ ~result[t].from_cache
        /\ pc[u] = "returned" /\ ~result[u].from_cache
        /\ cache
        /\ Cardinality(RowsOf(FileHashOf(t))) = 1

\* the row of the task's file carries the fields of the result
Recorded(table, t, res) ==
    \E r \in table :
        /\ r.file_hash = FileHashOf(t)
        /\ r.status = res.status
        /\ r.comparison = res.comparison
        /\ r.filename_gcn = res.filename_gcn
        /\ r.predicted_gcn = res.predicted_gcn
        /\ r.error = res.error

ServedStep(t) ==
    \/ pc[t] = "start" /\ pc'[t] = "hit"
    \/ pc[t] = "hit" /\ pc'[t] = "returned"

\* C9: the steps of a task that is served from the cache leave the table as it
\* was: no row is created, removed or rewritten.
C9_HitLeavesCacheUnchanged ==
    [][\A t \in Tasks : ServedStep(t) => db' = db]_vars

C9_Witness ==
    \E t \in Tasks :
        /\ pc[t] = "returned" /\ result[t].status = "cached"
        /\ \E r \in db : r.file_hash = FileHashOf(t)
                         /\ r.processed_at = result[t].processed_at

\* C10: no exception leaves process_single_pdf when a cache operation fails, so
\* every task returns a result.
C10_NoExceptionEscapes ==
    \A t \in Tasks : pc[t] # "raised"

\* the task ran the pipeline and its write to the cache was committed
Wrote(t) == cache /\ pc[t] = "returned" /\ ~result[t].from_cache

\* C11: when two workers have processed the same file without a cache hit and
\* both have finished, the cache holds exactly one record for the fingerprint,
\* and its fields are all those of the result of one worker that wrote it.
C11_OneWholeRecord ==
    \A t, u \in Tasks :
        (t # u /\ FileHashOf(t) = FileHashOf(u) /\ Wrote(t) /\ Wrote(u)) =>
            /\ Cardinality(RowsOf(FileHashOf(t))) = 1
            /\ \E w \in Tasks :
                  /\ Wrote(w) /\ FileHashOf(w) = FileHashOf(t)
                  /\ Recorded(db, w, result[w])

\* both workers missed the cache, both issued the recognition call, and their
\* results differ
C11_Witness ==
    \E t, u \in Tasks :
        /\ t # u /\ FileHashOf(t) = FileHashOf(u)
        /\ skip_processed /\ Wrote(t) /\ Wrote(u)
        /\ llmCalls[t] = 1 /\ llmCalls[u] = 1
        /\ result[t].status # result[u].status
        /\ Cardinality(RowsOf(FileHashOf(t))) = 1

\* C12: at every moment of a batch run at most max_workers tasks are executing
\* process_single_pdf, and the batch does not return before every one of the N
\* tasks has been dispatched and has finished.
C12_BoundedPool ==
    /\ Cardinality({t \in Tasks : Running(t)}) <= max_workers
    /\ returned => \A t \in Tasks : Finished(t)

\* the pool is full while a call still waits in the executor's queue
C12_Witness ==
    /\ Cardinality({t \in Tasks : Running(t)}) = max_workers
    /\ \E t \in Tasks : pc[t] = "queued"

\* the pool's threads are scheduled and every call a task makes returns
FairSpec == Spec /\ WF_vars(Next)

\* the statuses from which no further processing occurs
TerminalStatuses == {"success", "skip", "error", "cached"}

\* C13: when every call a task makes returns, every submitted task reaches a
\* terminal status and the batch returns: once the batch has returned, every
\* task has a result whose status is success, skip, error or cached.
C13_EveryTaskTerminal ==
    returned => \A t \in Tasks : result[t].status \in TerminalStatuses

\* the batch itself always returns, and every call has finished by then
C13_BatchReturns == <>(returned /\ \A t \in Tasks : Finished(t))

\* C14: when an exception escapes process_single_pdf for a task, the loop over
\* the futures logs it and still counts the task as completed: once the batch
\* has returned, the completed count is N, every task whose call raised has
\* been logged, and the returned list holds the result of every other task.
C14_FailedTaskCounted ==
    returned =>
        /\ completed = NumTasks
        /\ unexpected = {t \in Tasks : pc[t] = "raised"}
        /\ \A t \in Tasks :
              pc[t] = "returned" =>
                  \E i \in DOMAIN results : results[i] = result[t]
        /\ Len(results) = Cardinality({t \in Tasks : pc[t] = "returned"})

\* the batch has returned after one call raised and another returned a result
C14_Witness ==
    /\ returned
    /\ \E t, u \in Tasks :
          /\ pc[t] = "raised" /\ t \in unexpected
          /\ pc[u] = "returned"
          /\ \E i \in DOMAIN results : results[i] = result[u]

\* the rendering of page 2 raised inside extract_page2_to_base64
ExtractionFault(t) == rendering[t] = "exception"

\* the recognition call timed out or met a transport error
RecognitionFault(t) == llmError[t] \in LlmFailures

NoImage(t) == rendering[t] \in {"no page 2", "exception"}

\* C16: when the page extraction yields no image for a file with a valid name,
\* the task has status skip, not error, its verdict is N/A, and no recognition
\* call is made for it.
C16_NoImageIsSkip ==
    \A t \in Tasks :
        NoImage(t) =>
            /\ FilenameCheck[pdf_files[t]][1]
            /\ result[t].status = "skip"
            /\ result[t].comparison = NotApplicable
            /\ llmCalls[t] = 0

\* a task of a file without page 2 has returned its result
C16_Witness ==
    \E t \in Tasks :
        /\ rendering[t] = "no page 2" /\ pc[t] = "returned"
        /\ result[t].status = "skip" /\ extractCalls[t] = 1

\* the task went through the filename check (it was not served from the cache)
\* and its file's name fails validate_filename_format
RejectedName(t) ==
    /\ result[t].status # "unset"
    /\ ~result[t].from_cache
    /\ ~FilenameCheck[pdf_files[t]][1]

\* C17: when a file's name fails validate_filename_format, the task has status
\* skip, verdict N/A, an error detail containing the validator's reason and an
\* empty filename identifier, and neither the page extraction nor the
\* recognition is called for it.
C17_BadNameIsSkip ==
    \A t \in Tasks :
        RejectedName(t) =>
            /\ result[t].status = "skip"
            /\ result[t].comparison = NotApplicable
            /\ result[t].error.msg = "Sai ten file: "
            /\ result[t].error.reason = FilenameCheck[pdf_files[t]][2]
            /\ result[t].error.reason # NoReason
            /\ result[t].filename_gcn = <<>>
            /\ extractCalls[t] = 0 /\ llmCalls[t] = 0

\* a task of a badly named file has returned its result
C17_Witness ==
    \E t \in Tasks :
        /\ RejectedName(t) /\ pc[t] = "returned"
        /\ result[t].error.reason.text = "Chu cai phai viet HOA"

(***************************************************************************)
(* A second process_batch_pdfs call over the same files and the same cache *)
(***************************************************************************)
\* the first call has returned; the same list is submitted again to the same
\* ProcessedCache, whose table keeps its rows, with skip_processed=True
Rerun ==
    /\ returned
    /\ run = "first"
    /\ cache
    /\ run' = "second"
    /\ firstResult' = result
    /\ skip_processed' = TRUE
    /\ pc' = [t \in Tasks |-> "queued"]
    /\ result' = [t \in Tasks |-> NoResult]
    /\ collected' = {}
    /\ results' = <<>>
    /\ returned' = FALSE
    /\ unexpected' = {}
    /\ extractCalls' = [t \in Tasks |-> 0]
    /\ llmCalls' = [t \in Tasks |-> 0]
    /\ present' = [t \in Tasks |-> FALSE]
    /\ rendering' = [t \in Tasks |-> "none"]
    /\ llmError' = [t \in Tasks |-> "unset"]
    /\ UNCHANGED <<pdf_files, max_workers, cache, fsize, db, now, lastWrite,
                   gcn_str, normalized, alone>>

NextRerun == Next \/ Rerun

SpecRerun == Init /\ [][NextRerun]_vars

\* the identifiers, the verdict and the error detail of res are those of first
SameOutcome(res, first) ==
    /\ res.filename_gcn = first.filename_gcn
    /\ res.predicted_gcn = first.predicted_gcn
    /\ res.comparison = first.comparison
    /\ res.error = first.error

\* C18: after a batch run with a cache has completed, a second run over the
\* same files with the cache in use returns N results, each with status cached
\* and with the identifiers, verdict and error detail that the first run gave
\* for that file, and makes no recognition call.
C18_SecondRunAllCached ==
    (run = "second" /\ returned) =>
        /\ Len(results) = NumTasks
        /\ \A t \in Tasks : llmCalls[t] = 0
        /\ \A i \in DOMAIN results :
              /\ results[i].status = "cached"
              /\ \E u \in Tasks :
                    /\ pdf_files[u] = results[i].pdf_path
                    /\ firstResult[u].status # "unset"
                    /\ SameOutcome(results[i], firstResult[u])

(***************************************************************************)
(* normalize_gcn_number applied to a string, and again to what it returned  *)
(***************************************************************************)
MaxLen == 5

\* letters of both cases, digits and a separator
GcnChars == {"A", "b", "S", "1", "0", " "}

GcnStrings == UNION {[1..n -> GcnChars] : n \in 0..MaxLen}

InitNormalize ==
    /\ gcn_str \in GcnStrings
    /\ normalized = <<>>
    /\ NoCalls
    /\ pdf_files = [t \in Tasks |-> 1]
    /\ max_workers = 1
    /\ cache = FALSE
    /\ skip_processed = FALSE
    /\ fsize = [p \in Paths |-> 100 * p]
    /\ db = {}
    /\ now = 1
    /\ pc = [t \in Tasks |-> "queued"]
    /\ result = [t \in Tasks |-> NoResult]
    /\ collected = {}
    /\ results = <<>>
    /\ returned = FALSE
    /\ unexpected = {}
    /\ extractCalls = [t \in Tasks |-> 0]
    /\ llmCalls = [t \in Tasks |-> 0]
    /\ present = [t \in Tasks |-> FALSE]
    /\ lastWrite = {}
    /\ rendering = [t \in Tasks |-> "none"]
    /\ llmError = [t \in Tasks |-> "unset"]
    /\ run = "first"
    /\ firstResult = [t \in Tasks |-> NoResult]

\* normalize_gcn_number(gcn_str), then normalize_gcn_number of what it returned
Normalize ==
    /\ Len(normalized) < 2
    /\ normalized' = Append(normalized,
                            normalize_gcn_number(IF normalized = <<>> THEN gcn_str
                                                 ELSE normalized[Len(normalized)]))
    /\ UNCHANGED <<config, db, now, pc, result, collected, results, returned,
                   unexpected, extractCalls, llmCalls, present, lastWrite,
                   rendering, llmError, run, firstResult, gcn_str, alone>>

NextNormalize == Normalize

SpecNormalize == InitNormalize /\ [][NextNormalize]_vars

\* C19: normalize_gcn_number is idempotent: for every input string x,
\* normalize(normalize(x)) = normalize(x), whether x takes the
\* letters-then-digits path or the pass-through path.
C19_Idempotent ==
    Len(normalized) = 2 => normalized[2] = normalized[1]

\* an input of four letters and a digit was cut to its last two letters, and
\* normalised again
C19_Witness ==
    /\ Len(normalized) = 2
    /\ gcn_str = <<"S", "b", "A", "S", "1">>
    /\ normalized[1] = <<"A", "S", " ", "1">>

\* the alphanumeric characters of x in order, uppercased
AlnumUpper(x) ==
    LET keep == {i \in DOMAIN x : IsLetter(x[i]) \/ IsDigit(x[i])}
        nth(k) == CHOOSE i \in keep : Cardinality({j \in keep : j <= i}) = k
    IN  [k \in 1..Cardinality(keep) |-> ToUpper(x[nth(k)])]

\* the last n elements of s
LastOf(s, n) == [k \in 1..n |-> s[Len(s) - n + k]]

\* what the rule of C20 gives for x
Canonical(x) ==
    LET c == AlnumUpper(x)
        splits == {k \in 1..(Len(c) - 1) :
                      /\ \A i \in 1..k : IsLetter(c[i])
                      /\ \A i \in (k + 1)..Len(c) : IsDigit(c[i])}
    IN  IF splits = {} THEN c
        ELSE LET k == CHOOSE n \in splits : TRUE
                 prefix == IF k >= 4 THEN LastOf(SubSeq(c, 1, k), 2)
                           ELSE IF k = 3 THEN LastOf(SubSeq(c, 1, k), 1)
                           ELSE SubSeq(c, 1, k)
             IN  prefix \o <<" ">> \o SubSeq(c, k + 1, Len(c))

\* C20: for every input whose cleaned, uppercased form is one or more letters
\* followed by one or more digits, normalize_gcn_number returns the prefix, one
\* space and the digits, the prefix being the last two letters of four or more,
\* the last letter of three, and all the letters of one or two; for every other
\* input it returns the cleaned, uppercased string.
C20_CanonicalForm ==
    Len(normalized) >= 1 => normalized[1] = Canonical(gcn_str)

\* three letters and two digits: the last letter is kept
C20_Witness ==
    /\ Len(normalized) >= 1
    /\ gcn_str = <<"S", "b", "A", "1", "0">>
    /\ normalized[1] = <<"A", " ", "1", "0">>

\* C21: normalize_gcn_number never changes the digits: the digits of what it
\* returns are the digits of its input, in order and with their leading zeros,
\* so inputs that differ in their digits never normalise to the same value.
C21_DigitsKept ==
    Len(normalized) >= 1 =>
        SelectSeq(normalized[1], IsDigit) = SelectSeq(gcn_str, IsDigit)

\* two letters and digits with a leading zero
C21_Witness ==
    /\ Len(normalized) >= 1
    /\ gcn_str = <<"A", "b", "0", "1", "0">>
    /\ normalized[1] = <<"A", "B", " ", "0", "1", "0">>

(***************************************************************************)
(* validate_filename_format and extract_gcn_from_filename applied to a name *)
(***************************************************************************)
MaxStem == 4

\* an uppercase and a lowercase letter, a digit, whitespace and the two
\* separators the patterns name
StemChars == {"A", "b", "1", " ", "_", "-"}

\* how a name ends: with nothing more, as a PDF, with the tag in either case,
\* with a newline after the suffix, with the tag and no extension
NameEndings ==
    { <<>>,
      <<".","p","d","f">>,
      <<"-","G","C","N",".","p","d","f">>,
      <<"-","g","c","n",".","p","d","f">>,
      <<"-","G","C","N",".","p","d","f","\n">>,
      <<"-","G","C","N">> }

Filenames ==
    {stem \o ending : stem \in UNION {[1..n -> StemChars] : n \in 0..MaxStem},
                      ending \in NameEndings}

\* no batch is running
IdleBatch ==
    /\ pdf_files = [t \in Tasks |-> 1]
    /\ max_workers = 1
    /\ cache = FALSE
    /\ skip_processed = FALSE
    /\ fsize = [p \in Paths |-> 100 * p]
    /\ db = {}
    /\ now = 1
    /\ pc = [t \in Tasks |-> "queued"]
    /\ result = [t \in Tasks |-> NoResult]
    /\ collected = {}
    /\ results = <<>>
    /\ returned = FALSE
    /\ unexpected = {}
    /\ extractCalls = [t \in Tasks |-> 0]
    /\ llmCalls = [t \in Tasks |-> 0]
    /\ present = [t \in Tasks |-> FALSE]
    /\ lastWrite = {}
    /\ rendering = [t \in Tasks |-> "none"]
    /\ llmError = [t \in Tasks |-> "unset"]
    /\ run = "first"
    /\ firstResult = [t \in Tasks |-> NoResult]

batch == <<config, db, now, pc, result, collected, results, returned, unexpected,
           extractCalls, llmCalls, present, lastWrite, rendering, llmError, run,
           firstResult>>

InitFilename ==
    /\ filename \in Filenames
    /\ checked = <<>>
    /\ extracted = <<>>
    /\ pair = <<<<>>, <<>>>>
    /\ verdict = <<>>
    /\ fingerprints = <<>>
    /\ stats = <<>>
    /\ gate = <<>>
    /\ snapshot = NoSnapshot
    /\ gcn_str = <<>>
    /\ normalized = <<>>
    /\ IdleBatch

\* is_valid, error_msg = validate_filename_format(filename)
CheckName ==
    /\ checked = <<>>
    /\ checked' = <<validate_filename_format(filename)>>
    /\ UNCHANGED <<batch, gcn_str, normalized, filename, extracted, pair, verdict,
                   fingerprints, stats, gate,
                   snapshot>>

\* filename_gcn = extract_gcn_from_filename(filename)
ExtractName ==
    /\ extracted = <<>>
    /\ extracted' = <<extract_gcn_from_filename(filename)>>
    /\ UNCHANGED <<batch, gcn_str, normalized, filename, checked, pair, verdict,
                   fingerprints, stats, gate,
                   snapshot>>

NextFilename == CheckName \/ ExtractName

SpecFilename == InitFilename /\ [][NextFilename]_vars

\* 1 or 2 uppercase letters, optional whitespace, one or more digits and the
\* literal suffix -GCN.pdf, and nothing else
WellFormedName(name) ==
    \E nl \in 1..2 : \E ns \in 0..Len(name) : \E nd \in 1..Len(name) :
        /\ Len(name) = nl + ns + nd + Len(GcnPdfSuffix)
        /\ \A i \in 1..nl : IsUpper(name[i])
        /\ \A i \in (nl + 1)..(nl + ns) : IsSpace(name[i])
        /\ \A i \in (nl + ns + 1)..(nl + ns + nd) : IsDigit(name[i])
        /\ SubSeq(name, nl + ns + nd + 1, Len(name)) = GcnPdfSuffix

\* C22: validate_filename_format returns (true, empty reason) exactly for the
\* names made of 1 or 2 uppercase letters, optional whitespace, one or more
\* digits and the literal suffix -GCN.pdf, and (false, non-empty reason) for
\* every other name.
C22_ValidIffWellFormed ==
    checked # <<>> =>
        IF WellFormedName(filename)
        THEN checked[1] = <<TRUE, NoReason>>
        ELSE ~checked[1][1] /\ checked[1][2].text # ""

\* the last n characters of name are lit
HasTail(name, lit) ==
    /\ Len(name) >= Len(lit)
    /\ \A k \in 1..Len(lit) : name[Len(name) - Len(lit) + k] = lit[k]

\* the first reason that applies to name, in the order of C23
FirstReason(name) ==
    IF ~HasTail(name, <<".","p","d","f">>) THEN "Khong phai file PDF"
    ELSE IF ~HasTail(name, <<"-","G","C","N",".","p","d","f">>)
    THEN "Khong ket thuc bang -GCN.pdf"
    ELSE IF ~IsLetter(name[1]) THEN "Khong co chu cai dau tien"
    ELSE IF IsLower(name[1]) \/ IsLower(name[2]) THEN "Chu cai phai viet HOA"
    ELSE IF \A i \in DOMAIN name : ~IsDigit(name[i]) THEN "Thieu phan so"
    ELSE "Sai format ten file"

\* C23: for a rejected name, validate_filename_format reports the first reason
\* that applies, in this order: not a PDF, not ending in -GCN.pdf, no leading
\* letter, leading letters not uppercase, no digit present, generic failure.
C23_FirstReasonReported ==
    (checked # <<>> /\ ~checked[1][1]) =>
        checked[1][2].text = FirstReason(filename)

\* a name with lowercase letters and digits is reported for its lowercase letters
C23_Witness ==
    /\ checked # <<>>
    /\ filename = <<"b", "b", "1", "-", "G", "C", "N", ".", "p", "d", "f">>
    /\ checked[1] = <<FALSE, [text |-> "Chu cai phai viet HOA", prefix |-> <<"b", "b">>]>>

\* lit stands in name at positions from..from+Len(lit)-1, letter case ignored
Stands(name, from, lit) ==
    /\ from >= 1 /\ from + Len(lit) - 1 <= Len(name)
    /\ \A k \in 1..Len(lit) : ToUpper(name[from + k - 1]) = ToUpper(lit[k])

\* positions i..j of name hold 1 or 2 letters, optional whitespace and one or
\* more digits
IsIdentifierRun(name, i, j) ==
    \E nl \in 1..2 : \E d \in (i + nl)..j :
        /\ \A k \in i..(i + nl - 1) : IsLetter(name[k])
        /\ \A k \in (i + nl)..(d - 1) : IsSpace(name[k])
        /\ \A k \in d..j : IsDigit(name[k])

\* the identifier runs of name that stand between lead and tail
RunsBetween(name, lead, tail) ==
    {SubSeq(name, i, j) : <<i, j>> \in
        {p \in (1..Len(name)) \X (1..Len(name)) :
            /\ p[1] <= p[2]
            /\ Stands(name, p[2] + 1, tail)
            /\ Stands(name, p[1] - Len(lead), lead)
            /\ IsIdentifierRun(name, p[1], p[2])}}

\* C24: extract_gcn_from_filename returns the normalised form of 1-2 letters,
\* optional whitespace and digits that stand immediately before -GCN (in either
\* case); failing that, of such a run between an underscore and a hyphen; and
\* UNKNOWN exactly when the name holds neither.
C24_ExtractsIdentifier ==
    extracted # <<>> =>
        LET tagged   == RunsBetween(filename, <<>>, <<"-","G","C","N">>)
            fallback == RunsBetween(filename, <<"_">>, <<"-">>)
        IN  /\ tagged # {} =>
                  extracted[1] \in {normalize_gcn_number(r) : r \in tagged}
            /\ (tagged = {} /\ fallback # {}) =>
                  extracted[1] \in {normalize_gcn_number(r) : r \in fallback}
            /\ (extracted[1] = UNKNOWN) <=> (tagged = {} /\ fallback = {})

\* a name without the tag, whose identifier stands between _ and -
C24_Witness ==
    /\ extracted # <<>>
    /\ filename = <<"_", "b", "1", "-", ".", "p", "d", "f">>
    /\ extracted[1] = <<"B", " ", "1">>

(***************************************************************************)
(* compare_gcn applied to two strings, and to their normalised forms       *)
(***************************************************************************)
MaxGcn == 4

\* letters of both cases, a digit and a separator
PairChars == {"A", "b", "1", " "}

\* the first argument: every string up to MaxGcn characters
FilenameGcns == UNION {[1..n -> PairChars] : n \in 0..MaxGcn}

\* the second argument: identifiers as the recognition service may write them
PredictedGcns ==
    { <<>>, <<"1">>, <<"A","1">>, <<"a"," ","1">>, <<"A","b","1">>,
      <<"b","A","-","1">>, <<"S","A","b","1">>, <<"A","1","1">> }

InitCompare ==
    /\ pair \in FilenameGcns \X PredictedGcns
    /\ verdict = <<>>
    /\ filename = <<>>
    /\ checked = <<>>
    /\ extracted = <<>>
    /\ fingerprints = <<>>
    /\ stats = <<>>
    /\ gate = <<>>
    /\ snapshot = NoSnapshot
    /\ gcn_str = <<>>
    /\ normalized = <<>>
    /\ IdleBatch

\* compare_gcn(a, b), then compare_gcn of the two normalised strings
Compare ==
    /\ Len(verdict) < 2
    /\ verdict' =
          IF verdict = <<>>
          THEN <<compare_gcn(pair[1], pair[2])>>
          ELSE Append(verdict, compare_gcn(normalize_gcn_number(pair[1]),
                                           normalize_gcn_number(pair[2])))
    /\ UNCHANGED <<batch, gcn_str, normalized, filename, checked, extracted, pair,
                   fingerprints, stats, gate,
                   snapshot>>

NextCompare == Compare

SpecCompare == InitCompare /\ [][NextCompare]_vars

\* C25: compare_gcn(a, b) is Match if and only if a and b have the same
\* normalised form, and Mismatch otherwise; and it gives the same verdict for
\* the normalised a and b as for a and b themselves.
C25_MatchIffSameForm ==
    /\ Len(verdict) >= 1 =>
          /\ verdict[1] \in {Match, Mismatch}
          /\ (verdict[1] = Match) <=> (Canonical(pair[1]) = Canonical(pair[2]))
    /\ Len(verdict) = 2 => verdict[2] = verdict[1]

\* two spellings of one identifier match, before and after normalisation
C25_Witness ==
    /\ Len(verdict) = 2
    /\ pair = << <<"b", "A", " ", "1">>, <<"b", "A", "-", "1">> >>
    /\ verdict[1] = Match

(***************************************************************************)
(* _get_file_hash called for files whose size changes or cannot be read    *)
(***************************************************************************)
MaxHashes == 3

\* st_size of a file, or NoStat when stat fails
FileSizes == {100 * p : p \in Paths} \cup {NoStat}

InitHash ==
    /\ fingerprints = <<>>
    /\ filename = <<>>
    /\ checked = <<>>
    /\ extracted = <<>>
    /\ pair = <<<<>>, <<>>>>
    /\ verdict = <<>>
    /\ stats = <<>>
    /\ gate = <<>>
    /\ snapshot = NoSnapshot
    /\ gcn_str = <<>>
    /\ normalized = <<>>
    /\ IdleBatch

\* self._get_file_hash(file_path), with the path and the size at the call
HashFile(file_path) ==
    /\ Len(fingerprints) < MaxHashes
    /\ fingerprints' = Append(fingerprints,
                              [path |-> file_path,
                               size |-> fsize[file_path],
                               hash |-> _get_file_hash(file_path)])
    /\ UNCHANGED <<batch, gcn_str, normalized, filename, checked, extracted, pair,
                   verdict, stats, gate, snapshot>>

\* the file is rewritten, or becomes unreadable, between two calls
Resize(file_path) ==
    /\ \E size \in FileSizes \ {fsize[file_path]} :
          fsize' = [fsize EXCEPT ![file_path] = size]
    /\ UNCHANGED <<pdf_files, max_workers, cache, skip_processed, db, now, pc, result,
                   collected, results, returned, unexpected, extractCalls, llmCalls,
                   present, lastWrite, rendering, llmError, aside>>

NextHash == \E file_path \in Paths : HashFile(file_path) \/ Resize(file_path)

SpecHash == InitHash /\ [][NextHash]_vars

\* C26: _get_file_hash is a function of the file's path and current size: two
\* calls with the same path and the same size give the same fingerprint; and
\* when the size cannot be read, the call returns the fingerprint of the path
\* alone instead of raising.
C26_HashOfPathAndSize ==
    \A i, j \in DOMAIN fingerprints :
        /\ (fingerprints[i].path = fingerprints[j].path
              /\ fingerprints[i].size = fingerprints[j].size)
                 => fingerprints[i].hash = fingerprints[j].hash
        /\ fingerprints[i].size = NoStat
              => fingerprints[i].hash = <<fingerprints[i].path>>
        /\ fingerprints[i].size # NoStat
              => fingerprints[i].hash = <<fingerprints[i].path, fingerprints[i].size>>

\* one file hashed with its size, then after its size could not be read, then
\* with the first size again
C26_Witness ==
    /\ Len(fingerprints) = 3
    /\ fingerprints[1].path = fingerprints[2].path
    /\ fingerprints[1].path = fingerprints[3].path
    /\ fingerprints[1].size # NoStat
    /\ fingerprints[2].size = NoStat
    /\ fingerprints[3].size = fingerprints[1].size
    /\ fingerprints[3].hash = fingerprints[1].hash
    /\ fingerprints[2].hash # fingerprints[1].hash

(***************************************************************************)
(* The run statistics of app.main and main.main, computed from the results *)
(* of a batch that is given no cache                                       *)
(***************************************************************************)
\* sum(1 for r in results if ...)
CountOf(list, key, value) == Cardinality({i \in DOMAIN list : list[i][key] = value})

\* accuracy = (correct / success) * 100: the quotient, as the pair of its terms
Ratio(num, den) == <<num, den>>

\* no accuracy is computed
NoAccuracy == <<>>

\* mutant: the quotient is computed without the test success > 0
StatisticsUnguarded(list) ==
        [success   |-> CountOf(list, "status", "success"),
         skip      |-> CountOf(list, "status", "skip"),
         error     |-> CountOf(list, "status", "error"),
         correct   |-> CountOf(list, "comparison", Match),
         incorrect |-> CountOf(list, "comparison", Mismatch),
         accuracy  |-> Ratio(CountOf(list, "comparison", Match),
                             CountOf(list, "status", "success"))]

\* app.py 297-314 and main.py 478-501: the counts and, if success > 0, the accuracy
Statistics(list) ==
    LET success        == CountOf(list, "status", "success")
        correct        == CountOf(list, "comparison", Match)
    IN  [success   |-> success,
         skip      |-> CountOf(list, "status", "skip"),
         error     |-> CountOf(list, "status", "error"),
         correct   |-> correct,
         incorrect |-> CountOf(list, "comparison", Mismatch),
         accuracy  |-> IF success > 0 THEN Ratio(correct, success) ELSE NoAccuracy]

\* the statistics follow the batch
ShowStatistics ==
    /\ returned
    /\ stats = <<>>
    /\ stats' = <<Statistics(results)>>
    /\ UNCHANGED <<batch, gcn_str, normalized, filename, checked, extracted, pair,
                   verdict, fingerprints, gate,
                   snapshot>>

\* app.py 238 and main.py 471: the batch is run without a cache
InitApp == Init /\ ~cache /\ ~skip_processed

NextApp ==
    \/ \E t \in Tasks : Submit(t)
    \/ \E t \in Tasks : CacheCheck(t)
    \/ \E t \in Tasks : Validate(t)
    \/ \E t \in Tasks : ExtractPage(t)
    \/ \E t \in Tasks : Recognize(t)
    \/ \E t \in Tasks : Finally(t)
    \/ \E t \in Tasks : Collect(t)
    \/ ReturnBatch
    \/ ShowStatistics

SpecApp == InitApp /\ [][NextApp]_vars

\* the results whose status is success or cached
ComparedResults == {i \in DOMAIN results : results[i].status \in {"success", "cached"}}

C27_WitnessNone ==
    /\ stats # <<>>
    /\ Len(results) = NumTasks
    /\ stats[1].success = 0
    /\ stats[1].accuracy = NoAccuracy

\* C28: a task issues at most one page-extraction call and at most one
\* recognition call; a recognition call that failed or timed out is not made
\* again, in process_single_pdf or in process_batch_pdfs.
C28_NoRetry ==
    \A t \in Tasks :
        /\ extractCalls[t] <= 1
        /\ llmCalls[t] <= 1
        /\ llmCalls[t] <= extractCalls[t]

\* the batch has returned, and the one recognition call of a task had failed
C28_Witness ==
    /\ returned
    /\ \E t \in Tasks :
          RecognitionFault(t) /\ llmCalls[t] = 1 /\ extractCalls[t] = 1

\* cache usage is disabled although a cache is supplied
LookupDisabled == cache /\ ~skip_processed

\* the rows a table holds for the file of a task
RowsFor(table, t) == {r \in table : r.file_hash = FileHashOf(t)}

\* C29: with a cache supplied and skip_processed false, process_single_pdf
\* makes no lookup (its first step leads to the pipeline, never to the hit path
\* and never to an exception of the lookup), returns no result with status
\* cached, and at its return the only record of the file is the one of its own
\* result, written at that moment in place of whatever record was there.
C29_DisabledCacheIsBypassed ==
    /\ [](LookupDisabled =>
            \A t \in Tasks :
                /\ pc[t] # "hit"
                /\ ~present[t]
                /\ result[t].status # "cached"
                /\ pc[t] = "raised" => result[t] # NoResult)
    /\ [][LookupDisabled =>
            \A t \in Tasks :
                /\ pc[t] = "start" /\ pc'[t] # "start" => pc'[t] = "validate"
                /\ pc[t] = "finally" /\ pc'[t] = "returned" =>
                      /\ Cardinality(RowsFor(db', t)) = 1
                      /\ Recorded(db', t, result'[t])
                      /\ \A r \in RowsFor(db', t) : r.processed_at = now]_vars

\* two tasks on one file with the lookup disabled: both ran the pipeline with
\* different outcomes, and the record left is the one of the later writer
C29_Witness ==
    /\ LookupDisabled
    /\ \E t, u \in Tasks :
          /\ t # u /\ pdf_files[t] = pdf_files[u]
          /\ pc[t] = "returned" /\ pc[u] = "returned"
          /\ result[t].status # result[u].status
          /\ extractCalls[u] = 1
          /\ Recorded(db, u, result[u])
          /\ ~Recorded(db, t, result[t])
          /\ \A r \in RowsFor(db, u) : r.processed_at = 2

\* the result carries the fields of a stored record
Verbatim(res, r) ==
    /\ res.filename_gcn = r.filename_gcn
    /\ res.predicted_gcn = r.predicted_gcn
    /\ res.comparison = r.comparison
    /\ res.error = r.error
    /\ res.processed_at = r.processed_at

\* C30: the result a cache hit returns has status cached, from_cache true, and
\* the filename identifier, recognized identifier, verdict, error detail and
\* processed_at of the record stored for the file when it is read.
C30_HitReturnsRecord ==
    [][\A t \in Tasks :
          (pc[t] = "hit" /\ pc'[t] = "returned") =>
              /\ result'[t].status = "cached"
              /\ result'[t].from_cache
              /\ RowsFor(db, t) # {}
              /\ \A r \in RowsFor(db, t) : Verbatim(result'[t], r)]_vars

\* a hit on the record of a failed file: the error detail came back with it
C30_Witness ==
    \E t \in Tasks :
        /\ pc[t] = "returned"
        /\ result[t].status = "cached" /\ result[t].from_cache
        /\ result[t].error # NoError
        /\ \E r \in RowsFor(db, t) : r.status = "error" /\ Verbatim(result[t], r)

(***************************************************************************)
(* The comparison gate of process_single_pdf, applied to the identifier of *)
(* any file name and to any outcome of the recognition adapter             *)
(***************************************************************************)
InitGate ==
    /\ filename \in Filenames
    /\ checked = <<>>
    /\ extracted = <<>>
    /\ pair = <<<<>>, <<>>>>
    /\ verdict = <<>>
    /\ fingerprints = <<>>
    /\ stats = <<>>
    /\ gate = <<>>
    /\ snapshot = NoSnapshot
    /\ gcn_str = <<>>
    /\ normalized = <<>>
    /\ IdleBatch

\* processor.py 82-83 and 93-120: filename_gcn, the adapter's pair, the result
CompareGate ==
    /\ gate = <<>>
    /\ \E out \in extract_gcn_with_llm_outcomes :
          LET filename_gcn == extract_gcn_from_filename(filename)
              res == [PendingResult(1) EXCEPT !.filename_gcn = filename_gcn]
          IN  gate' = <<[filename_gcn      |-> filename_gcn,
                         predicted_gcn_raw |-> out[1],
                         llm_error         |-> out[2],
                         result            |-> Compared(res, out[1], out[2])]>>
    /\ UNCHANGED <<batch, gcn_str, normalized, filename, checked, extracted, pair,
                   verdict, fingerprints, stats, snapshot>>

NextGate == CompareGate

SpecGate == InitGate /\ [][NextGate]_vars

\* C31: a result that leaves the comparison gate with status error names both
\* failures when the filename identifier is UNKNOWN and the recognized one is
\* ERROR; names the recognition failure, with the adapter's message and the
\* filename identifier, when only the recognized one is ERROR; and names the
\* filename failure, with the recognized identifier, when only the filename
\* identifier is UNKNOWN.
C31_ErrorNamesFailingSide ==
    (gate # <<>> /\ gate[1].result.status = "error") =>
        LET g   == gate[1]
            err == g.result.error
            noId  == g.filename_gcn = UNKNOWN
            noGcn == g.result.predicted_gcn = ERROR
        IN  /\ noId \/ noGcn
            /\ (noId /\ noGcn) =>
                  /\ err.msg = "Both LLM and filename failed. LLM: "
                  /\ err.llm = g.llm_error
            /\ (~noId /\ noGcn) =>
                  /\ err.msg = "LLM extraction failed: . Filename GCN: "
                  /\ err.llm = g.llm_error
                  /\ err.gcn = g.filename_gcn
            /\ (noId /\ ~noGcn) =>
                  /\ err.msg = "Cannot parse GCN from filename. LLM predicted: "
                  /\ err.gcn = g.result.predicted_gcn
                  /\ err.gcn = normalize_gcn_number(g.predicted_gcn_raw)

\* only the filename parse failed, and the text carries the recognized identifier
C31_Witness ==
    /\ gate # <<>>
    /\ gate[1].result.status = "error"
    /\ gate[1].filename_gcn = UNKNOWN
    /\ gate[1].result.error.gcn = <<"A", "B", " ", "1">>

\* both sides failed
C31_WitnessBoth ==
    /\ gate # <<>>
    /\ gate[1].filename_gcn = UNKNOWN
    /\ gate[1].result.predicted_gcn = ERROR
    /\ gate[1].llm_error = "LLM API timeout"

(***************************************************************************)
(* A batch while an administrator uses the same ProcessedCache: records are *)
(* removed, the table is cleared, files are rewritten                      *)
(***************************************************************************)
\* DELETE FROM processed_files WHERE file_hash = ?
remove_processed(file_path) == db \ RowsOf(_get_file_hash(file_path))

\* DELETE FROM processed_files
clear_cache == {}

RemoveProcessed(file_path) ==
    /\ cache
    /\ db' = remove_processed(file_path)
    /\ UNCHANGED <<config, now, pc, result, collected, results, returned, unexpected,
                   extractCalls, llmCalls, present, lastWrite, rendering, llmError,
                   aside>>

ClearCache ==
    /\ cache
    /\ db' = clear_cache
    /\ UNCHANGED <<config, now, pc, result, collected, results, returned, unexpected,
                   extractCalls, llmCalls, present, lastWrite, rendering, llmError,
                   aside>>

NextAdmin ==
    \/ Next
    \/ \E file_path \in Paths : RemoveProcessed(file_path)
    \/ ClearCache
    \/ \E file_path \in Paths : Resize(file_path)

SpecAdmin == Init /\ [][NextAdmin]_vars

\* the fingerprints a table holds
FingerprintsOf(table) == {r.file_hash : r \in table}

\* C32: a step of process_single_pdf or of process_batch_pdfs removes no
\* fingerprint from the cache; a step after which a fingerprint is missing is a
\* remove_processed or a clear_cache call.
C32_OnlyAdminRemoves ==
    [][~(FingerprintsOf(db) \subseteq FingerprintsOf(db')) =>
          \/ ClearCache
          \/ \E file_path \in Paths : RemoveProcessed(file_path)]_vars

\* a record that a task wrote is no longer in the table, and another task's is
C32_Witness ==
    /\ returned
    /\ db # {}
    /\ \E r \in lastWrite : r.file_hash \notin FingerprintsOf(db)

\* the rows of a table whose fingerprint is not that of the file of task t
OtherRows(table, t) == {r \in table : r.file_hash # FileHashOf(t)}

\* C33: the step in which a task writes its record leaves every record of
\* another fingerprint as it was, whatever the other workers have looked up or
\* written before it.
C33_WriteTouchesOneRecord ==
    [][\A t \in Tasks :
          (pc[t] = "finally" /\ pc'[t] # "finally") =>
              OtherRows(db', t) = OtherRows(db, t)]_vars

\* two records of different fingerprints: the earlier one is still the row its
\* writer left
C33_Witness ==
    \E r, q \in db :
        /\ r.file_hash # q.file_hash
        /\ r.processed_at < q.processed_at
        /\ r \in lastWrite /\ q \in lastWrite

\* C34: a result returned without a cache hit has status success, skip or error,
\* never pending; its verdict is Match or Mismatch exactly when the status is
\* success, and N/A when the status is skip or error.
C34_StatusFixesVerdict ==
    \A t \in Tasks :
        (pc[t] = "returned" /\ ~result[t].from_cache) =>
            /\ result[t].status \in {"success", "skip", "error"}
            /\ result[t].comparison \in {Match, Mismatch, NotApplicable}
            /\ result[t].comparison \in {Match, Mismatch} <=> result[t].status = "success"
            /\ result[t].status \in {"skip", "error"} =>
                  result[t].comparison = NotApplicable

\* one task compared its identifiers and found them different, another failed
C34_Witness ==
    \E t, u \in Tasks :
        /\ pc[t] = "returned" /\ ~result[t].from_cache
        /\ result[t].status = "success" /\ result[t].comparison = Mismatch
        /\ pc[u] = "returned" /\ ~result[u].from_cache
        /\ result[u].status = "error" /\ result[u].comparison = NotApplicable

(***************************************************************************)
(* The two filename functions on names whose digits may lie outside ASCII  *)
(***************************************************************************)
\* a letter, an ASCII digit, a digit outside ASCII and a space
DigitStemChars == {"A", "1", ArabicThree, " "}

\* stems of up to MaxStem characters, each followed by -GCN.pdf
DigitNames ==
    {stem \o GcnPdfSuffix : stem \in UNION {[1..n -> DigitStemChars] : n \in 1..MaxStem}}

InitDigits ==
    /\ filename \in DigitNames
    /\ checked = <<>>
    /\ extracted = <<>>
    /\ pair = <<<<>>, <<>>>>
    /\ verdict = <<>>
    /\ fingerprints = <<>>
    /\ stats = <<>>
    /\ gate = <<>>
    /\ snapshot = NoSnapshot
    /\ gcn_str = <<>>
    /\ normalized = <<>>
    /\ IdleBatch

SpecDigits == InitDigits /\ [][NextFilename]_vars

\* the letters a name begins with
LeadingLetters(name) == SubSeq(name, 1, RunLen(name, 1, LetterChars))

\* the digits of the name, in the order they stand in it
DigitsOf(name) == SelectSeq(name, IsDecimal)

\* C35: for a name that validate_filename_format accepts,
\* extract_gcn_from_filename returns the name's letters, one space and its
\* digits, and never UNKNOWN.
C35_AcceptedNameGivesIdentifier ==
    (checked # <<>> /\ extracted # <<>> /\ checked[1][1]) =>
        /\ extracted[1] # UNKNOWN
        /\ extracted[1] = LeadingLetters(filename) \o <<" ">> \o DigitsOf(filename)

\* is_processed has reported a hit to task t, and the record it saw can no
\* longer be read: it was removed, the table was cleared, or the file's size
\* and with it the fingerprint changed
RecordGone(t) == pc[t] = "hit" /\ get_processed_result(pdf_files[t]) = None

\* C36: once is_processed has reported a hit, process_single_pdf returns a
\* cached result and raises nothing, also when remove_processed, clear_cache or
\* a change of the file's size comes between the is_processed and the
\* get_processed_result call.
C36_HitSurvivesRemoval ==
    [][\A t \in Tasks :
          (RecordGone(t) /\ pc'[t] # "hit") =>
              pc'[t] = "returned" /\ result'[t].status = "cached"]_vars

\* the adapter answered task t with a text and no error message
Answered(t) == llmCalls[t] = 1 /\ llmError[t] = "None"

\* C37: a task whose recognition call returned a text other than the ERROR
\* sentinel, with no error message, leaves the comparison gate with status
\* success and a verdict of Match or Mismatch, whatever the text is; status
\* error at the gate means that the adapter reported a failure.
C37_AnswerIsCompared ==
    \A t \in Tasks :
        (Answered(t) /\ pc[t] \in {"finally", "returned", "raised"}) =>
            /\ result[t].status = "success"
            /\ result[t].comparison \in {Match, Mismatch}

(***************************************************************************)
(* get_cache_stats called while the workers of a batch write their records *)
(***************************************************************************)
\* SELECT status, COUNT(*) ... GROUP BY status, read with .get(status, 0)
StatusCount(status) == Cardinality({r \in db : r.status = status})

\* lines 207-212: the first statement, SELECT COUNT(*) FROM processed_files
StatsTotal ==
    /\ cache
    /\ snapshot = NoSnapshot
    /\ snapshot' = [at |-> "counted", total |-> Cardinality(db)]
    /\ UNCHANGED <<batch, gcn_str, normalized, filename, checked, extracted, pair,
                   verdict, fingerprints, stats, gate>>

\* lines 214-225: the second statement, run on its own after the first, and the
\* dict that is returned
StatsByStatus ==
    /\ snapshot.at = "counted"
    /\ snapshot' = [at      |-> "returned",
                    total   |-> snapshot.total,
                    success |-> StatusCount("success"),
                    skip    |-> StatusCount("skip"),
                    error   |-> StatusCount("error")]
    /\ UNCHANGED <<batch, gcn_str, normalized, filename, checked, extracted, pair,
                   verdict, fingerprints, stats, gate>>

NextStats == Next \/ StatsTotal \/ StatsByStatus

SpecStats == Init /\ [][NextStats]_vars

\* C38: the dict get_cache_stats returns is a consistent snapshot: its total is
\* the sum of its success, skip and error counts, also when workers write
\* records while the call runs.
C38_TotalIsSumOfStatuses ==
    snapshot.at = "returned" =>
        snapshot.total = snapshot.success + snapshot.skip + snapshot.error

=============================================================================
